---- MODULE Spec2Model ----
(***************************************************************************)
(* Model of the keephy_notifications service:                              *)
(*   - the NotificationRule model (conditions, gates, statistics),         *)
(*   - the Notification model (delivery state machine of one document),    *)
(*   - the POST /api/notifications/trigger handler.                        *)
(* Time is counted in minutes since the epoch.  JavaScript strings that    *)
(* the code takes apart (paths, "HH:MM", compared text) are sequences of   *)
(* one-character strings; strings the code only stores are TLA+ strings.   *)
(***************************************************************************)
EXTENDS Integers, Sequences, FiniteSets

VARIABLES rules, notifications, now, reqs, ntrig, op

vars == <<rules, notifications, now, reqs, ntrig, op>>

(***************************************************************************)
(* JavaScript values (JSON payload values and what Number()/String() make  *)
(* of them).  Every value is a record of the same shape so that any two    *)
(* can be compared: t is the type tag, n the number, s the characters,     *)
(* a the array items, o the object entries (a list of key/value pairs).    *)
(***************************************************************************)
JNull == [t |-> "null", n |-> 0, s |-> <<>>, a |-> <<>>, o |-> <<>>]

JNaN == [t |-> "nan", n |-> 0, s |-> <<>>, a |-> <<>>, o |-> <<>>]

JNum(k) == [t |-> "number", n |-> k, s |-> <<>>, a |-> <<>>, o |-> <<>>]

JStr(cs) == [t |-> "string", n |-> 0, s |-> cs, a |-> <<>>, o |-> <<>>]

JArr(items) == [t |-> "array", n |-> 0, s |-> <<>>, a |-> items, o |-> <<>>]

JObj(entries) == [t |-> "object", n |-> 0, s |-> <<>>, a |-> <<>>, o |-> entries]

Digits == <<"0", "1", "2", "3", "4", "5", "6", "7", "8", "9">>

UpperChars == <<"A", "B", "C", "D", "E", "F", "G", "H", "I", "J", "K", "L", "M",
                "N", "O", "P", "Q", "R", "S", "T", "U", "V", "W", "X", "Y", "Z">>

LowerChars == <<"a", "b", "c", "d", "e", "f", "g", "h", "i", "j", "k", "l", "m",
                "n", "o", "p", "q", "r", "s", "t", "u", "v", "w", "x", "y", "z">>

IsDigit(c) == \E i \in DOMAIN Digits : Digits[i] = c

DigitVal(c) == (CHOOSE i \in DOMAIN Digits : Digits[i] = c) - 1

\* String.prototype.toLowerCase, one character
ToLowerChar(c) ==
    IF \E i \in DOMAIN UpperChars : UpperChars[i] = c
    THEN LowerChars[CHOOSE i \in DOMAIN UpperChars : UpperChars[i] = c]
    ELSE c

ToLowerCase(cs) == [i \in DOMAIN cs |-> ToLowerChar(cs[i])]

\* String.prototype.includes
Includes(hay, needle) ==
    \E i \in 0..(Len(hay) - Len(needle)) :
        \A j \in 1..Len(needle) : hay[i + j] = needle[j]

RECURSIVE SplitFrom(_, _, _, _)
\* String.prototype.split(sep) for a one-character separator: cur is the
\* piece being read, i the next position
SplitFrom(cs, sep, i, cur) ==
    IF i > Len(cs) THEN <<cur>>
    ELSE IF cs[i] = sep THEN <<cur>> \o SplitFrom(cs, sep, i + 1, <<>>)
    ELSE SplitFrom(cs, sep, i + 1, Append(cur, cs[i]))

Split(cs, sep) == SplitFrom(cs, sep, 1, <<>>)

RECURSIVE DigitsValue(_)
DigitsValue(cs) ==
    IF cs = <<>> THEN 0
    ELSE 10 * DigitsValue(SubSeq(cs, 1, Len(cs) - 1)) + DigitVal(cs[Len(cs)])

RECURSIVE TrimLeft(_)
TrimLeft(cs) == IF cs # <<>> /\ cs[1] = " " THEN TrimLeft(Tail(cs)) ELSE cs

RECURSIVE TrimRight(_)
TrimRight(cs) ==
    IF cs # <<>> /\ cs[Len(cs)] = " " THEN TrimRight(SubSeq(cs, 1, Len(cs) - 1)) ELSE cs

\* Number(string): surrounding blanks are dropped, the empty string is 0, an
\* optionally signed run of digits is that integer, anything else is NaN
\* (fractions, exponents and radix prefixes are outside the modelled inputs)
StringToNumber(cs) ==
    LET u == TrimRight(TrimLeft(cs))
        signed == u # <<>> /\ (u[1] = "-" \/ u[1] = "+")
        body == IF signed THEN Tail(u) ELSE u
    IN  IF u = <<>> THEN JNum(0)
        ELSE IF body # <<>> /\ \A i \in DOMAIN body : IsDigit(body[i])
        THEN JNum(IF signed /\ u[1] = "-" THEN 0 - DigitsValue(body) ELSE DigitsValue(body))
        ELSE JNaN

RECURSIVE NatToString(_)
NatToString(k) ==
    IF k < 10 THEN <<Digits[k + 1]>>
    ELSE NatToString(k \div 10) \o <<Digits[(k % 10) + 1]>>

IntToString(k) == IF k < 0 THEN <<"-">> \o NatToString(0 - k) ELSE NatToString(k)

RECURSIVE JoinItems(_)
RECURSIVE JsString(_)
\* Array.prototype.join(","): null items give the empty string
JoinItems(items) ==
    IF items = <<>> THEN <<>>
    ELSE LET head == IF items[1].t = "null" THEN <<>> ELSE JsString(items[1])
         IN  IF Len(items) = 1 THEN head
             ELSE head \o <<",">> \o JoinItems(Tail(items))

\* String(value)
JsString(v) ==
    CASE v.t = "null" -> <<"n", "u", "l", "l">>
      [] v.t = "nan" -> <<"N", "a", "N">>
      [] v.t = "number" -> IntToString(v.n)
      [] v.t = "string" -> v.s
      [] v.t = "array" -> JoinItems(v.a)
      [] OTHER -> <<"[", "o", "b", "j", "e", "c", "t", " ", "O", "b", "j", "e", "c", "t", "]">>

\* Number(value)
JsNumber(v) ==
    CASE v.t = "null" -> JNum(0)
      [] v.t = "nan" -> JNaN
      [] v.t = "number" -> v
      [] v.t = "string" -> StringToNumber(v.s)
      [] v.t = "array" -> StringToNumber(JoinItems(v.a))
      [] OTHER -> JNaN

\* a > b and a < b on the results of Number(): false when either is NaN
NumGreater(a, b) == a.t = "number" /\ b.t = "number" /\ a.n > b.n

NumLess(a, b) == a.t = "number" /\ b.t = "number" /\ a.n < b.n

\* a === b: primitives by value; arrays and objects by identity, and a value
\* read from the payload is never the object stored in the rule
StrictEquals(a, b) ==
    /\ a.t = b.t
    /\ CASE a.t = "null" -> TRUE
         [] a.t = "number" -> a.n = b.n
         [] a.t = "string" -> a.s = b.s
         [] OTHER -> FALSE

\* JavaScript truthiness
Truthy(v) ==
    CASE v.t = "null" -> FALSE
      [] v.t = "nan" -> FALSE
      [] v.t = "number" -> v.n # 0
      [] v.t = "string" -> v.s # <<>>
      [] OTHER -> TRUE

HasEntry(v, key) == \E i \in DOMAIN v.o : v.o[i].k = key

\* current[key] !== undefined ? current[key] : null, for the property reads
\* the payloads can reach: own keys of objects, indices and length of arrays
\* and strings
GetProperty(v, key) ==
    LET isIndex == key # <<>> /\ (\A i \in DOMAIN key : IsDigit(key[i]))
                      /\ (key[1] # "0" \/ Len(key) = 1)
        idx == IF isIndex THEN DigitsValue(key) + 1 ELSE 0
        isLength == key = <<"l", "e", "n", "g", "t", "h">>
    IN  CASE v.t = "object" /\ HasEntry(v, key) ->
                v.o[CHOOSE i \in DOMAIN v.o : v.o[i].k = key].v
          [] v.t = "array" /\ isIndex /\ idx \in DOMAIN v.a -> v.a[idx]
          [] v.t = "array" /\ isLength -> JNum(Len(v.a))
          [] v.t = "string" /\ isIndex /\ idx \in DOMAIN v.s -> JStr(<<v.s[idx]>>)
          [] v.t = "string" /\ isLength -> JNum(Len(v.s))
          [] OTHER -> JNull

RECURSIVE ReduceKeys(_, _)
ReduceKeys(current, keys) ==
    IF keys = <<>> THEN current
    ELSE ReduceKeys(IF Truthy(current) THEN GetProperty(current, keys[1]) ELSE JNull,
                    Tail(keys))

\* NotificationRule.getNestedValue(obj, path)
getNestedValue(obj, path) == ReduceKeys(obj, Split(path, "."))

ArrayIncludes(items, v) == \E i \in DOMAIN items : StrictEquals(items[i], v)

\* one condition of NotificationRule.evaluateConditions
evaluateCondition(condition, data) ==
    LET fieldValue == getNestedValue(data, condition.field)
    IN  CASE condition.operator = "equals" -> StrictEquals(fieldValue, condition.value)
          [] condition.operator = "not_equals" -> ~StrictEquals(fieldValue, condition.value)
          [] condition.operator = "greater_than" ->
                NumGreater(JsNumber(fieldValue), JsNumber(condition.value))
          [] condition.operator = "less_than" ->
                NumLess(JsNumber(fieldValue), JsNumber(condition.value))
          [] condition.operator = "contains" ->
                Includes(ToLowerCase(JsString(fieldValue)), ToLowerCase(JsString(condition.value)))
          [] condition.operator = "not_contains" ->
                ~Includes(ToLowerCase(JsString(fieldValue)), ToLowerCase(JsString(condition.value)))
          [] condition.operator = "in" ->
                condition.value.t = "array" /\ ArrayIncludes(condition.value.a, fieldValue)
          [] condition.operator = "not_in" ->
                condition.value.t = "array" /\ ~ArrayIncludes(condition.value.a, fieldValue)
          [] OTHER -> FALSE

\* NotificationRule.evaluateConditions(data)
evaluateConditions(rule, data) ==
    \A i \in DOMAIN rule.conditions : evaluateCondition(rule.conditions[i], data)


(***************************************************************************)
(* NotificationRule: time window, cooldown and statistics.                 *)
(***************************************************************************)
NullDate == -1

NullString == "<null>"

MinutesPerHour == 60

HoursPerDay == 24

\* the offset, in minutes, of the IANA zones the rules use
TzOffset(tz) == IF tz = "Asia/Tokyo" THEN 9 * MinutesPerHour ELSE 0

\* localTime.getHours() * 60 + localTime.getMinutes() of `t` in zone tz
MinuteOfDay(t, tz) == (t + TzOffset(tz)) % (HoursPerDay * MinutesPerHour)

\* NotificationRule.parseTime: split(':').map(Number), hours * 60 + minutes;
\* a missing or non-numeric piece makes the result NaN
parseTime(timeString) ==
    LET pieces == Split(timeString, ":")
        hours == StringToNumber(pieces[1])
        minutes == IF Len(pieces) >= 2 THEN StringToNumber(pieces[2]) ELSE JNaN
    IN  IF hours.t = "number" /\ minutes.t = "number"
        THEN JNum(hours.n * MinutesPerHour + minutes.n)
        ELSE JNaN

\* a <= b and a >= b on numbers that may be NaN
NumLeq(a, b) == a.t = "number" /\ b.t = "number" /\ a.n <= b.n

NumGeq(a, b) == a.t = "number" /\ b.t = "number" /\ a.n >= b.n

\* isInTimeWindow treating every window as a same-day window
isInTimeWindow_SameDay(rule, t) ==
    LET tw == rule.settings.timeWindow
        timezone == IF tw.timezone # "" THEN tw.timezone ELSE "UTC"
        currentTime == JNum(MinuteOfDay(t, timezone))
        startTime == parseTime(tw.start)
        endTime == parseTime(tw.end)
    IN  IF tw.start = <<>> \/ tw.end = <<>> THEN TRUE
        ELSE NumGeq(currentTime, startTime) /\ NumLeq(currentTime, endTime)

\* NotificationRule.isInTimeWindow, at clock reading t; an unset start or end
\* is the empty string
isInTimeWindow(rule, t) ==
    LET tw == rule.settings.timeWindow
        timezone == IF tw.timezone # "" THEN tw.timezone ELSE "UTC"
        currentTime == JNum(MinuteOfDay(t, timezone))
        startTime == parseTime(tw.start)
        endTime == parseTime(tw.end)
    IN  IF tw.start = <<>> \/ tw.end = <<>> THEN TRUE
        ELSE IF NumLeq(startTime, endTime)
        THEN NumGeq(currentTime, startTime) /\ NumLeq(currentTime, endTime)
        ELSE NumGeq(currentTime, startTime) \/ NumLeq(currentTime, endTime)

\* the cooldown check with the cooldown taken as seconds, not minutes
cooldownElapsed_Seconds(rule, t) ==
    IF rule.settings.cooldown > 0 /\ rule.statistics.lastTriggered # NullDate
    THEN ~((t - rule.statistics.lastTriggered) * MinutesPerHour < rule.settings.cooldown)
    ELSE TRUE

\* the cooldown check of NotificationRule.shouldTrigger
cooldownElapsed(rule, t) ==
    IF rule.settings.cooldown > 0 /\ rule.statistics.lastTriggered # NullDate
    THEN ~(t - rule.statistics.lastTriggered < rule.settings.cooldown)
    ELSE TRUE

\* shouldTrigger without its cooldown check
shouldTrigger_NoCooldown(rule, data, t) ==
    IF ~rule.settings.isActive THEN FALSE
    ELSE IF ~isInTimeWindow(rule, t) THEN FALSE
    ELSE evaluateConditions(rule, data)

\* NotificationRule.shouldTrigger(data), at clock reading t
shouldTrigger(rule, data, t) ==
    IF ~rule.settings.isActive THEN FALSE
    ELSE IF ~isInTimeWindow(rule, t) THEN FALSE
    ELSE IF ~cooldownElapsed(rule, t) THEN FALSE
    ELSE evaluateConditions(rule, data)

\* updateStatistics counting every trigger as a failure
updateStatistics_CountsFailure(rule, success, t) ==
    [rule EXCEPT !.statistics =
        [totalTriggered |-> @.totalTriggered + 1,
         lastTriggered |-> t,
         totalSent |-> @.totalSent,
         totalFailed |-> @.totalFailed + 1]]

\* updateStatistics that leaves totalTriggered as it was
updateStatistics_KeepsTotal(rule, success, t) ==
    [rule EXCEPT !.statistics =
        [totalTriggered |-> @.totalTriggered,
         lastTriggered |-> t,
         totalSent |-> IF success THEN @.totalSent + 1 ELSE @.totalSent,
         totalFailed |-> IF success THEN @.totalFailed ELSE @.totalFailed + 1]]

\* NotificationRule.updateStatistics(success), the in-memory part
updateStatistics(rule, success, t) ==
    [rule EXCEPT !.statistics =
        [totalTriggered |-> @.totalTriggered + 1,
         lastTriggered |-> t,
         totalSent |-> IF success THEN @.totalSent + 1 ELSE @.totalSent,
         totalFailed |-> IF success THEN @.totalFailed ELSE @.totalFailed + 1]]

\* rule.save() after updateStatistics: the paths the document changed are
\* written over the stored rule, the other stored paths are kept
saveStatistics(stored, doc, success) ==
    [stored EXCEPT !.statistics =
        [totalTriggered |-> doc.statistics.totalTriggered,
         lastTriggered |-> doc.statistics.lastTriggered,
         totalSent |-> IF success THEN doc.statistics.totalSent ELSE @.totalSent,
         totalFailed |-> IF success THEN @.totalFailed ELSE doc.statistics.totalFailed]]

(***************************************************************************)
(* Notification: the schema's defaults and the document built by trigger.  *)
(***************************************************************************)
DefaultMaxRetries == 3

\* a recipient sub-document with the schema's defaults
NewRecipient(type, value, status) ==
    [type |-> type, value |-> value, status |-> status,
     sentAt |-> NullDate, error |-> NullString, retryCount |-> 0]

RECURSIVE FlatMapRecipients(_)
\* rule.actions.flatMap(action => action.recipients.map(...))
FlatMapRecipients(actions) ==
    IF actions = <<>> THEN <<>>
    ELSE [i \in DOMAIN actions[1].recipients |->
            NewRecipient(actions[1].recipients[i].type,
                         actions[1].recipients[i].value, "pending")]
         \o FlatMapRecipients(Tail(actions))

\* new Notification({...}) in the trigger handler, at clock reading t
NewNotification(rule, triggerData, t) ==
    LET first == IF rule.actions # <<>> THEN rule.actions[1] ELSE [template |-> ""]
        hasFirst == rule.actions # <<>>
    IN  [ruleId |-> rule.id,
         businessId |-> rule.businessId,
         eventType |-> rule.eventType,
         triggerData |-> triggerData,
         recipients |-> FlatMapRecipients(rule.actions),
         content |-> [subject |-> IF hasFirst /\ first.template # ""
                                  THEN first.template ELSE "Notification",
                      body |-> IF hasFirst /\ first.template # ""
                               THEN first.template ELSE "You have a new notification",
                      template |-> IF hasFirst /\ first.template # ""
                                   THEN first.template ELSE "default"],
         status |-> "pending",
         priority |-> IF hasFirst /\ first.settings.priority # ""
                      THEN first.settings.priority ELSE "normal",
         scheduledFor |-> t + (IF hasFirst THEN first.settings.delay ELSE 0),
         sentAt |-> NullDate,
         failedAt |-> NullDate,
         error |-> NullString,
         retryCount |-> 0,
         maxRetries |-> DefaultMaxRetries,
         createdAt |-> t,
         updatedAt |-> t]

\* the pre('save') middleware: updatedAt = new Date()
save(n, t) == [n EXCEPT !.updatedAt = t]

\* markAsSent overwriting every recipient, pending or not
markAsSent_EveryRecipient(n, t) ==
    save([n EXCEPT !.status = "sent",
                   !.sentAt = t,
                   !.recipients =
                       [k \in DOMAIN n.recipients |->
                           [n.recipients[k] EXCEPT !.status = "sent", !.sentAt = t]]], t)

\* Notification.markAsSent, at clock reading t
markAsSent(n, t) ==
    save([n EXCEPT !.status = "sent",
                   !.sentAt = t,
                   !.recipients =
                       [k \in DOMAIN n.recipients |->
                           IF n.recipients[k].status = "pending"
                           THEN [n.recipients[k] EXCEPT !.status = "sent", !.sentAt = t]
                           ELSE n.recipients[k]]], t)

\* markAsFailed that fails the notification and leaves its recipients alone
markAsFailed_KeepsRecipients(n, error, t) ==
    save([n EXCEPT !.status = "failed",
                   !.failedAt = t,
                   !.error = error], t)

\* markAsFailed that fails the pending recipients without recording the error
markAsFailed_NoRecipientError(n, error, t) ==
    save([n EXCEPT !.status = "failed",
                   !.failedAt = t,
                   !.error = error,
                   !.recipients =
                       [k \in DOMAIN n.recipients |->
                           IF n.recipients[k].status = "pending"
                           THEN [n.recipients[k] EXCEPT !.status = "failed"]
                           ELSE n.recipients[k]]], t)

\* Notification.markAsFailed(error), at clock reading t
markAsFailed(n, error, t) ==
    save([n EXCEPT !.status = "failed",
                   !.failedAt = t,
                   !.error = error,
                   !.recipients =
                       [k \in DOMAIN n.recipients |->
                           IF n.recipients[k].status = "pending"
                           THEN [n.recipients[k] EXCEPT !.status = "failed", !.error = error]
                           ELSE n.recipients[k]]], t)

\* incrementRetry counting the attempt on every recipient
incrementRetry_EveryRecipient(n, t) ==
    save([n EXCEPT !.retryCount = @ + 1,
                   !.recipients =
                       [k \in DOMAIN n.recipients |->
                           [n.recipients[k] EXCEPT !.retryCount = @ + 1]]], t)

\* incrementRetry counting the attempt on the recipients only
incrementRetry_RecipientsOnly(n, t) ==
    save([n EXCEPT !.recipients =
                       [k \in DOMAIN n.recipients |->
                           IF n.recipients[k].status = "failed"
                           THEN [n.recipients[k] EXCEPT !.retryCount = @ + 1]
                           ELSE n.recipients[k]]], t)

\* incrementRetry that also puts the failed recipients back to pending
incrementRetry_RequeuesRecipients(n, t) ==
    save([n EXCEPT !.retryCount = @ + 1,
                   !.recipients =
                       [k \in DOMAIN n.recipients |->
                           IF n.recipients[k].status = "failed"
                           THEN [n.recipients[k] EXCEPT !.retryCount = @ + 1,
                                                        !.status = "pending"]
                           ELSE n.recipients[k]]], t)

\* Notification.incrementRetry, at clock reading t
incrementRetry(n, t) ==
    save([n EXCEPT !.retryCount = @ + 1,
                   !.recipients =
                       [k \in DOMAIN n.recipients |->
                           IF n.recipients[k].status = "failed"
                           THEN [n.recipients[k] EXCEPT !.retryCount = @ + 1]
                           ELSE n.recipients[k]]], t)

\* canRetry allowing one attempt more
canRetry_OneMore(n) == n.retryCount <= n.maxRetries /\ n.status = "failed"

\* Notification.canRetry
canRetry(n) == n.retryCount < n.maxRetries /\ n.status = "failed"

PercentScale == 100

\* getSuccessRate counting delivered recipients only
getSuccessRate_DeliveredOnly(n) ==
    LET totalRecipients == Len(n.recipients)
        successfulRecipients ==
            Cardinality({k \in DOMAIN n.recipients : n.recipients[k].status = "delivered"})
    IN  IF totalRecipients = 0 THEN [num |-> 0, den |-> 1]
        ELSE [num |-> successfulRecipients * PercentScale, den |-> totalRecipients]

\* Notification.getSuccessRate: (successful / total) * 100 as the exact
\* fraction num / den, and 0 (0 / 1) when there are no recipients
getSuccessRate(n) ==
    LET totalRecipients == Len(n.recipients)
        successfulRecipients ==
            Cardinality({k \in DOMAIN n.recipients :
                            n.recipients[k].status \in {"sent", "delivered"}})
    IN  IF totalRecipients = 0 THEN [num |-> 0, den |-> 1]
        ELSE [num |-> successfulRecipients * PercentScale, den |-> totalRecipients]

FailedRetryLimit == 3

DefaultLimit == 100

RECURSIVE SortByFailedAt(_)
\* .sort({failedAt: 1}): ascending, null first, ties in stored order
SortByFailedAt(ids) ==
    IF ids = <<>> THEN <<>>
    ELSE LET least == CHOOSE k \in DOMAIN ids :
                        /\ \A j \in DOMAIN ids :
                              notifications[ids[k]].failedAt <= notifications[ids[j]].failedAt
                        /\ \A j \in 1..(k - 1) :
                              notifications[ids[j]].failedAt # notifications[ids[k]].failedAt
         IN  <<ids[least]>> \o
             SortByFailedAt([j \in 1..(Len(ids) - 1) |->
                                IF j < least THEN ids[j] ELSE ids[j + 1]])

\* Notification.getFailedNotifications(limit = 100): the ids of the stored
\* notifications the query returns, in the order it returns them
getFailedNotifications ==
    LET matching == SelectSeq([j \in DOMAIN notifications |-> j],
                              LAMBDA j : /\ notifications[j].status = "failed"
                                         /\ notifications[j].retryCount < FailedRetryLimit)
        sorted == SortByFailedAt(matching)
    IN  SubSeq(sorted, 1, IF Len(sorted) < DefaultLimit THEN Len(sorted) ELSE DefaultLimit)

(***************************************************************************)
(* The stored rules and the events of the model.                           *)
(***************************************************************************)
NumRules == 2

MaxTriggers == 2

MaxElapsed == 10

NumRequests == 2

StartTime == 23 * MinutesPerHour + 55

MaxTime == StartTime + MaxElapsed

TickSteps == {5, 6}

Chars_rating == <<"r", "a", "t", "i", "n", "g">>

Chars_comment == <<"c", "o", "m", "m", "e", "n", "t">>

DefaultActionSettings ==
    [priority |-> "normal", delay |-> 0, retryAttempts |-> 3, retryDelay |-> 5]

NoTimeWindow == [start |-> <<>>, end |-> <<>>, timezone |-> "UTC"]

ZeroStatistics ==
    [totalTriggered |-> 0, totalSent |-> 0, totalFailed |-> 0, lastTriggered |-> NullDate]

\* a rule document as new NotificationRule(body) stores it
Rule(eventType, conditions, actions, isActive, priority, cooldown, timeWindow) ==
    [id |-> 0, businessId |-> "B1", eventType |-> eventType,
     conditions |-> conditions, actions |-> actions,
     settings |-> [isActive |-> isActive, priority |-> priority,
                   cooldown |-> cooldown, timeWindow |-> timeWindow],
     statistics |-> ZeroStatistics]

EmailOwner ==
    [type |-> "email", template |-> "low_rating",
     recipients |-> <<[type |-> "email", value |-> "owner@b1"]>>,
     settings |-> DefaultActionSettings]

EmailStaff ==
    [type |-> "email", template |-> "staff_alert",
     recipients |-> <<[type |-> "email", value |-> "a@b1"],
                      [type |-> "email", value |-> "b@b1"]>>,
     settings |-> [DefaultActionSettings EXCEPT !.priority = "high"]]

SmsManager ==
    [type |-> "sms", template |-> "manager_sms",
     recipients |-> <<[type |-> "phone", value |-> "+100"]>>,
     settings |-> [DefaultActionSettings EXCEPT !.priority = "urgent", !.delay = 15]]

RatingBelow3 ==
    [field |-> Chars_rating, operator |-> "less_than", value |-> JNum(3)]

CommentHasBad ==
    [field |-> Chars_comment, operator |-> "contains", value |-> JStr(<<"B", "A", "D">>)]

\* the rules a store may hold: the low-rating rule of the scenarios, the same
\* rule switched off, a two-action rule with a 10 minute cooldown, a rule
\* with a same-day window, and an action-less rule with an overnight window
Catalogue ==
    << Rule("rating_low", <<RatingBelow3>>, <<EmailOwner>>, TRUE, 0, 0, NoTimeWindow),
       Rule("rating_low", <<RatingBelow3>>, <<EmailOwner>>, FALSE, 0, 0, NoTimeWindow),
       Rule("rating_low", <<>>, <<EmailStaff, SmsManager>>, TRUE, 5, 10, NoTimeWindow),
       Rule("rating_low", <<CommentHasBad>>, <<SmsManager>>, TRUE, 1, 0,
            [start |-> <<"0", "0", ":", "0", "2">>, end |-> <<"0", "0", ":", "0", "8">>,
             timezone |-> "UTC"]),
       Rule("complaint", <<>>, <<>>, TRUE, 2, 0,
            [start |-> <<"2", "3", ":", "5", "8">>, end |-> <<"0", "0", ":", "0", "1">>,
             timezone |-> "UTC"]) >>

\* the request bodies: rating_low with {rating: 1}, with {rating: 5,
\* comment: "Bad food"} and with {}, and complaint with {}
Events ==
    << [businessId |-> "B1", eventType |-> "rating_low",
        triggerData |-> JObj(<<[k |-> Chars_rating, v |-> JNum(1)]>>)],
       [businessId |-> "B1", eventType |-> "rating_low",
        triggerData |->
            JObj(<<[k |-> Chars_rating, v |-> JNum(5)],
                   [k |-> Chars_comment,
                    v |-> JStr(<<"B", "a", "d", " ", "f", "o", "o", "d">>)]>>)],
       [businessId |-> "B1", eventType |-> "rating_low", triggerData |-> JObj(<<>>)],
       [businessId |-> "B1", eventType |-> "complaint", triggerData |-> JObj(<<>>)] >>

IdleRequest ==
    [pc |-> "idle", businessId |-> "", eventType |-> "", triggerData |-> JNull,
     loaded |-> <<>>, i |-> 0, out |-> <<>>, fired |-> <<>>, before |-> <<>>,
     created |-> 0]

NoOp ==
    [name |-> "none", id |-> 0, error |-> NullString, at |-> NullDate, result |-> FALSE]

RuleStores ==
    {[i \in 1..NumRules |-> [Catalogue[c[i]] EXCEPT !.id = i]] :
        c \in [1..NumRules -> DOMAIN Catalogue]}

Init ==
    /\ rules \in RuleStores
    /\ notifications = <<>>
    /\ now = StartTime
    /\ reqs = [q \in 1..NumRequests |-> IdleRequest]
    /\ ntrig = 0
    /\ op = NoOp

\* the clock advances
Tick ==
    /\ \E d \in TickSteps : now + d <= MaxTime /\ now' = now + d
    /\ op' = [NoOp EXCEPT !.name = "tick"]
    /\ UNCHANGED <<rules, notifications, reqs, ntrig>>

(***************************************************************************)
(* POST /api/notifications/trigger.  The handler runs between its awaits   *)
(* as one step each: the find, then per rule the decision with the         *)
(* notification's construction and save, then updateStatistics with the    *)
(* rule's save, and last the response.                                     *)
(***************************************************************************)
\* NotificationRule.find({businessId, eventType, 'settings.isActive': true})
FindRules(store, businessId, eventType) ==
    SelectSeq(store, LAMBDA r : /\ r.businessId = businessId
                                /\ r.eventType = eventType
                                /\ r.settings.isActive = TRUE)

\* the request arrives and the matching rules are read
Receive(q) ==
    /\ reqs[q].pc \in {"idle", "done"}
    /\ ntrig < MaxTriggers
    /\ \E e \in DOMAIN Events :
         LET body == Events[e] IN
         reqs' = [reqs EXCEPT ![q] =
                    [pc |-> "loop", businessId |-> body.businessId,
                     eventType |-> body.eventType, triggerData |-> body.triggerData,
                     loaded |-> FindRules(rules, body.businessId, body.eventType),
                     i |-> 1, out |-> <<>>, fired |-> <<>>, before |-> rules,
                     created |-> Len(notifications)]]
    /\ ntrig' = ntrig + 1
    /\ UNCHANGED <<rules, notifications, now, op>>

\* the loop body up to `await notification.save()` for a rule that fires
Fire(q) ==
    LET r == reqs[q] IN
    /\ r.pc = "loop"
    /\ r.i <= Len(r.loaded)
    /\ shouldTrigger(r.loaded[r.i], r.triggerData, now)
    /\ notifications' = Append(notifications, NewNotification(r.loaded[r.i], r.triggerData, now))
    /\ reqs' = [reqs EXCEPT ![q].pc = "stats",
                            ![q].out = Append(@, Len(notifications) + 1),
                            ![q].fired = Append(@, r.loaded[r.i].id)]
    /\ UNCHANGED <<rules, now, ntrig, op>>

\* the loop body for a rule that does not fire
Skip(q) ==
    LET r == reqs[q] IN
    /\ r.pc = "loop"
    /\ r.i <= Len(r.loaded)
    /\ ~shouldTrigger(r.loaded[r.i], r.triggerData, now)
    /\ reqs' = [reqs EXCEPT ![q].i = @ + 1]
    /\ UNCHANGED <<rules, notifications, now, ntrig, op>>

\* `await rule.updateStatistics(true)`
RecordTrigger(q) ==
    LET r == reqs[q]
        doc == updateStatistics(r.loaded[r.i], TRUE, now)
    IN
    /\ r.pc = "stats"
    /\ rules' = [rules EXCEPT ![doc.id] = saveStatistics(@, doc, TRUE)]
    /\ reqs' = [reqs EXCEPT ![q].pc = "loop", ![q].i = @ + 1, ![q].loaded[r.i] = doc]
    /\ UNCHANGED <<notifications, now, ntrig, op>>

\* res.json({success: true, data: triggeredNotifications, ...})
Respond(q) ==
    /\ reqs[q].pc = "loop"
    /\ reqs[q].i > Len(reqs[q].loaded)
    /\ reqs' = [reqs EXCEPT ![q].pc = "done"]
    /\ UNCHANGED <<rules, notifications, now, ntrig, op>>

\* requests handled one after another
Next ==
    \/ Tick
    \/ Receive(1)
    \/ Fire(1)
    \/ Skip(1)
    \/ RecordTrigger(1)
    \/ Respond(1)

Spec == Init /\ [][Next]_vars

(***************************************************************************)
(* Properties of the trigger handler.  In a request record, `before` is    *)
(* the rule store and `created` the number of stored notifications when    *)
(* the request arrived, `fired` the ids of the rules that fired and `out`  *)
(* the response's notifications.                                           *)
(***************************************************************************)
Done(q) == reqs[q].pc = "done"

Fired(q, id) == \E k \in DOMAIN reqs[q].fired : reqs[q].fired[k] = id

\* the response's notifications that belong to rule id, in response order
NotificationsOf(q, id) ==
    SelectSeq([k \in DOMAIN reqs[q].out |-> notifications[reqs[q].out[k]]],
              LAMBDA n : n.ruleId = id)

AddressOf(recipients) ==
    [k \in DOMAIN recipients |-> [type |-> recipients[k].type, value |-> recipients[k].value]]

\* C1: when a rule fires, one Notification is created for every Action of
\* the rule (k actions give k notifications), and each notification's
\* recipients are exactly the recipients of its own action, in order.
C1_OneNotificationPerAction ==
    \A id \in DOMAIN rules :
        (Done(1) /\ Fired(1, id)) =>
            LET ns == NotificationsOf(1, id) IN
            /\ Len(ns) = Len(rules[id].actions)
            /\ \A k \in DOMAIN ns :
                  AddressOf(ns[k].recipients) = rules[id].actions[k].recipients

\* C2: a rule that fires during a trigger call has its statistics updated
\* exactly once, however many actions it has: when the call has completed
\* totalTriggered and totalSent are each 1 more than when it arrived and
\* totalFailed is the same; and the step that writes a rule's statistics
\* sets lastTriggered to the clock reading of that step.
C2_StatisticsOncePerFiringRule ==
    /\ [](\A id \in DOMAIN rules :
            (Done(1) /\ Fired(1, id)) =>
                /\ Cardinality({k \in DOMAIN reqs[1].fired : reqs[1].fired[k] = id}) = 1
                /\ rules[id].statistics.totalTriggered
                      = reqs[1].before[id].statistics.totalTriggered + 1
                /\ rules[id].statistics.totalSent
                      = reqs[1].before[id].statistics.totalSent + 1
                /\ rules[id].statistics.totalFailed
                      = reqs[1].before[id].statistics.totalFailed
                /\ rules[id].statistics.lastTriggered # NullDate)
    /\ [][\A id \in DOMAIN rules :
            rules'[id].statistics # rules[id].statistics =>
                /\ reqs[1].pc = "stats"
                /\ reqs[1].fired[Len(reqs[1].fired)] = id
                /\ rules'[id].statistics.lastTriggered = now]_vars

\* a completed call fired a rule that has two actions
C2_Witness ==
    \E id \in DOMAIN rules :
        Done(1) /\ Fired(1, id) /\ Len(rules[id].actions) = 2

\* the gates and conditions of a rule, as the claim words them
GatesPass(rule, data, t) ==
    /\ rule.settings.isActive
    /\ isInTimeWindow(rule, t)
    /\ \/ rule.settings.cooldown = 0
       \/ rule.statistics.lastTriggered = NullDate
       \/ t - rule.statistics.lastTriggered >= rule.settings.cooldown
    /\ \A k \in DOMAIN rule.conditions : evaluateCondition(rule.conditions[k], data)

\* C3: a rule that does not fire in a trigger call gets no Notification and
\* keeps its four statistics fields: when the call has completed, every rule
\* that did not fire has the statistics it had when the call arrived and none
\* of the notifications created since; and a notification is only ever
\* created for a rule that is active, inside its time window, past its
\* cooldown and whose conditions all hold at that moment.
C3_NoEffectWithoutFiring ==
    /\ [](\A id \in DOMAIN rules :
            (Done(1) /\ ~Fired(1, id)) =>
                /\ rules[id].statistics = reqs[1].before[id].statistics
                /\ \A j \in DOMAIN notifications :
                      j > reqs[1].created => notifications[j].ruleId # id)
    /\ [][Len(notifications') > Len(notifications) =>
            LET n == notifications'[Len(notifications')] IN
            /\ GatesPass(rules[n.ruleId], reqs[1].triggerData, now)
            /\ rules[n.ruleId].businessId = reqs[1].businessId
            /\ rules[n.ruleId].eventType = reqs[1].eventType
            /\ \E k \in DOMAIN reqs'[1].fired : reqs'[1].fired[k] = n.ruleId]_vars

\* a completed call fired nothing although the store holds a switched-off
\* rule for the event and an active rule still inside its cooldown
C3_Witness ==
    /\ Done(1)
    /\ reqs[1].fired = <<>>
    /\ \E id \in DOMAIN rules :
          /\ ~rules[id].settings.isActive
          /\ rules[id].eventType = reqs[1].eventType
          /\ evaluateConditions(rules[id], reqs[1].triggerData)
    /\ \E id \in DOMAIN rules :
          /\ rules[id].settings.isActive
          /\ rules[id].eventType = reqs[1].eventType
          /\ rules[id].settings.cooldown > 0
          /\ rules[id].statistics.lastTriggered # NullDate
          /\ now - rules[id].statistics.lastTriggered < rules[id].settings.cooldown

(***************************************************************************)
(* The Notification methods, called on a stored document.  The callers     *)
(* (delivery worker, retry scheduler) are outside the service, so any      *)
(* method may be called on any stored document at any time.                *)
(***************************************************************************)
MaxRecipients == 2

MaxRetryCount == 4

NotificationStatuses == {"pending", "processing", "sent", "failed", "cancelled"}

RecipientStatuses == {"pending", "sent", "failed", "delivered", "bounced"}

MaxRetriesValues == {1, DefaultMaxRetries, DefaultMaxRetries + 1}

Errors == {"timeout"}

\* a stored recipient in the given status, as a delivery report leaves it
StoredRecipient(status) ==
    [NewRecipient("email", "a@b1", status) EXCEPT
        !.sentAt = IF status \in {"sent", "delivered"} THEN StartTime ELSE NullDate,
        !.error = IF status \in {"failed", "bounced"} THEN "smtp" ELSE NullString]

RecipientLists ==
    UNION {[1..len -> {StoredRecipient(st) : st \in RecipientStatuses}] :
             len \in 0..MaxRecipients}

\* the stored documents the schema admits, up to the bounds
Documents ==
    {[ruleId |-> 1, businessId |-> "B1", eventType |-> "rating_low",
      triggerData |-> JObj(<<>>), recipients |-> rs,
      content |-> [subject |-> "low_rating", body |-> "low_rating",
                   template |-> "low_rating"],
      status |-> st, priority |-> "normal", scheduledFor |-> StartTime,
      sentAt |-> IF st = "sent" THEN StartTime ELSE NullDate,
      failedAt |-> IF st = "failed" THEN StartTime ELSE NullDate,
      error |-> IF st = "failed" THEN "smtp" ELSE NullString,
      retryCount |-> 0, maxRetries |-> mr,
      createdAt |-> StartTime, updatedAt |-> StartTime] :
        rs \in RecipientLists, st \in NotificationStatuses, mr \in MaxRetriesValues}

InitDoc ==
    /\ rules = <<>>
    /\ notifications \in {<<d>> : d \in Documents}
    /\ now = StartTime
    /\ reqs = [q \in 1..NumRequests |-> IdleRequest]
    /\ ntrig = 0
    /\ op = NoOp

MarkAsSent(i) ==
    /\ notifications' = [notifications EXCEPT ![i] = markAsSent(@, now)]
    /\ op' = [NoOp EXCEPT !.name = "markAsSent", !.id = i, !.at = now]
    /\ UNCHANGED <<rules, now, reqs, ntrig>>

MarkAsFailed(i, error) ==
    /\ notifications' = [notifications EXCEPT ![i] = markAsFailed(@, error, now)]
    /\ op' = [NoOp EXCEPT !.name = "markAsFailed", !.id = i, !.error = error, !.at = now]
    /\ UNCHANGED <<rules, now, reqs, ntrig>>

IncrementRetry(i) ==
    /\ notifications[i].retryCount < MaxRetryCount
    /\ notifications' = [notifications EXCEPT ![i] = incrementRetry(@, now)]
    /\ op' = [NoOp EXCEPT !.name = "incrementRetry", !.id = i, !.at = now]
    /\ UNCHANGED <<rules, now, reqs, ntrig>>

NextDoc ==
    \/ Tick
    \/ \E i \in DOMAIN notifications : MarkAsSent(i)
    \/ \E i \in DOMAIN notifications, e \in Errors : MarkAsFailed(i, e)
    \/ \E i \in DOMAIN notifications : IncrementRetry(i)

SpecDoc == InitDoc /\ [][NextDoc]_vars

(***************************************************************************)
(* The delivery pipeline around the Notification methods: a delivery       *)
(* worker that takes the pending notifications that are due and reports    *)
(* each outcome with markAsSent or markAsFailed, and a retry scheduler     *)
(* that calls incrementRetry only when canRetry() is true and puts the     *)
(* notification back in the queue.                                         *)
(***************************************************************************)
\* the filter of Notification.getPendingNotifications, at clock reading t
isPendingAt(n, t) == n.status = "pending" /\ n.scheduledFor <= t

\* the scheduler's re-queue: the status goes back to pending
requeue(n) == [n EXCEPT !.status = "pending"]

InitRetry ==
    /\ rules = <<>>
    /\ notifications \in {<<d>> : d \in {x \in Documents : x.status = "pending"}}
    /\ now = StartTime
    /\ reqs = [q \in 1..NumRequests |-> IdleRequest]
    /\ ntrig = 0
    /\ op = NoOp

DeliverSent(i) ==
    /\ isPendingAt(notifications[i], now)
    /\ MarkAsSent(i)

DeliverFailed(i, error) ==
    /\ isPendingAt(notifications[i], now)
    /\ MarkAsFailed(i, error)

Retry(i) ==
    /\ canRetry(notifications[i])
    /\ notifications' = [notifications EXCEPT ![i] = requeue(incrementRetry(@, now))]
    /\ op' = [NoOp EXCEPT !.name = "retry", !.id = i, !.at = now]
    /\ UNCHANGED <<rules, now, reqs, ntrig>>

Deliveries ==
    \E i \in DOMAIN notifications :
        DeliverSent(i) \/ \E e \in Errors : DeliverFailed(i, e)

Retries == \E i \in DOMAIN notifications : Retry(i)

NextRetry ==
    \/ Tick
    \/ Deliveries
    \/ Retries

\* the worker and the scheduler keep running while they have work
SpecRetry ==
    InitRetry /\ [][NextRetry]_vars /\ WF_vars(Deliveries) /\ WF_vars(Retries)

(***************************************************************************)
(* Properties of the Notification methods.  `op` names the method the last *)
(* step called, the document it was called on, its argument and the clock  *)
(* reading of the call.                                                    *)
(***************************************************************************)
\* C4: sent and cancelled are terminal, and so is failed once retryCount >=
\* maxRetries: no markAsSent, markAsFailed or incrementRetry changes the
\* status of a notification in one of these states.
C4_TerminalStatusStays ==
    [][\A i \in DOMAIN notifications :
        (\/ notifications[i].status \in {"sent", "cancelled"}
         \/ /\ notifications[i].status = "failed"
            /\ notifications[i].retryCount >= notifications[i].maxRetries)
        => notifications'[i].status = notifications[i].status]_vars

\* C5: canRetry() is true exactly when status is failed and retryCount <
\* maxRetries; it is false in status pending, processing, sent and cancelled
\* whatever retryCount is, and false whenever retryCount >= maxRetries.
C5_CanRetryIffFailedBelowMax ==
    \A i \in DOMAIN notifications :
        LET n == notifications[i] IN
        /\ canRetry(n) <=> (n.status = "failed" /\ n.retryCount < n.maxRetries)
        /\ n.status \in {"pending", "processing", "sent", "cancelled"} => ~canRetry(n)
        /\ n.retryCount >= n.maxRetries => ~canRetry(n)

\* a failed notification that was retried and may be retried again
C5_Witness ==
    /\ op.name = "incrementRetry"
    /\ notifications[op.id].status = "failed"
    /\ notifications[op.id].retryCount > 0
    /\ canRetry(notifications[op.id])

Selected(i) == \E k \in DOMAIN getFailedNotifications : getFailedNotifications[k] = i

\* C7: getFailedNotifications agrees with canRetry() for every value of
\* maxRetries: a notification is selected only if it is failed and canRetry()
\* is true, and every failed notification with canRetry() true is selected.
C7_SelectionMatchesCanRetry ==
    \A i \in DOMAIN notifications :
        Selected(i) <=> (notifications[i].status = "failed" /\ canRetry(notifications[i]))

\* C8: markAsSent sets status to sent and sentAt to the clock reading, turns
\* every pending recipient into sent with sentAt the clock reading, leaves
\* every other recipient as it was, and a second markAsSent changes no
\* recipient.
C8_MarkAsSentEffect ==
    [][op'.name = "markAsSent" =>
        LET n == notifications[op'.id]
            m == notifications'[op'.id]
        IN  /\ m.status = "sent"
            /\ m.sentAt = now
            /\ DOMAIN m.recipients = DOMAIN n.recipients
            /\ \A k \in DOMAIN n.recipients :
                  IF n.recipients[k].status = "pending"
                  THEN m.recipients[k] =
                         [n.recipients[k] EXCEPT !.status = "sent", !.sentAt = now]
                  ELSE m.recipients[k] = n.recipients[k]
            /\ \A t \in now..MaxTime : markAsSent(m, t).recipients = m.recipients]_vars

\* markAsSent was called after the stored time on a notification with a
\* bounced recipient and a pending one
C8_Witness ==
    /\ op.name = "markAsSent"
    /\ op.at > StartTime
    /\ \E k \in DOMAIN notifications[op.id].recipients :
          notifications[op.id].recipients[k].status = "bounced"
    /\ \E k \in DOMAIN notifications[op.id].recipients :
          /\ notifications[op.id].recipients[k].status = "sent"
          /\ notifications[op.id].recipients[k].sentAt = op.at

\* C9: markAsFailed(error) sets status to failed, failedAt to the clock
\* reading and error to the message, turns every pending recipient into
\* failed with that error, and leaves the status and error of every other
\* recipient as they were.
C9_MarkAsFailedEffect ==
    [][op'.name = "markAsFailed" =>
        LET n == notifications[op'.id]
            m == notifications'[op'.id]
        IN  /\ m.status = "failed"
            /\ m.failedAt = now
            /\ m.error = op'.error
            /\ DOMAIN m.recipients = DOMAIN n.recipients
            /\ \A k \in DOMAIN n.recipients :
                  IF n.recipients[k].status = "pending"
                  THEN /\ m.recipients[k].status = "failed"
                       /\ m.recipients[k].error = op'.error
                  ELSE /\ m.recipients[k].status = n.recipients[k].status
                       /\ m.recipients[k].error = n.recipients[k].error]_vars

\* markAsFailed was called on a notification with a delivered recipient and a
\* pending one
C9_Witness ==
    /\ op.name = "markAsFailed"
    /\ notifications[op.id].error = op.error
    /\ \E k \in DOMAIN notifications[op.id].recipients :
          /\ notifications[op.id].recipients[k].status = "delivered"
          /\ notifications[op.id].recipients[k].error = NullString
    /\ \E k \in DOMAIN notifications[op.id].recipients :
          /\ notifications[op.id].recipients[k].status = "failed"
          /\ notifications[op.id].recipients[k].error = op.error

\* C10: incrementRetry adds 1 to the notification's retryCount and to the
\* retryCount of each failed recipient, and leaves the retryCount of every
\* other recipient and every status as they were.
C10_IncrementRetryEffect ==
    [][op'.name = "incrementRetry" =>
        LET n == notifications[op'.id]
            m == notifications'[op'.id]
        IN  /\ m.retryCount = n.retryCount + 1
            /\ m.status = n.status
            /\ DOMAIN m.recipients = DOMAIN n.recipients
            /\ \A k \in DOMAIN n.recipients :
                  /\ m.recipients[k].status = n.recipients[k].status
                  /\ m.recipients[k].retryCount =
                        IF n.recipients[k].status = "failed"
                        THEN n.recipients[k].retryCount + 1
                        ELSE n.recipients[k].retryCount]_vars

\* incrementRetry was called on a notification with a failed recipient and a
\* sent one
C10_Witness ==
    /\ op.name = "incrementRetry"
    /\ \E k \in DOMAIN notifications[op.id].recipients :
          /\ notifications[op.id].recipients[k].status = "failed"
          /\ notifications[op.id].recipients[k].retryCount > 0
    /\ \E k \in DOMAIN notifications[op.id].recipients :
          /\ notifications[op.id].recipients[k].status = "sent"
          /\ notifications[op.id].recipients[k].retryCount = 0

\* C6: with a retry scheduler that calls incrementRetry only when canRetry()
\* is true, a notification is retried at most maxRetries times whatever the
\* delivery outcomes, and a fairly scheduled pipeline brings every
\* notification to a state where canRetry() is false for good: status sent,
\* or status failed with retryCount = maxRetries.
C6_RetriesBoundedAndSettle ==
    /\ [](\A i \in DOMAIN notifications :
            notifications[i].retryCount <= notifications[i].maxRetries)
    /\ <>[](\A i \in DOMAIN notifications :
              /\ ~canRetry(notifications[i])
              /\ \/ notifications[i].status = "sent"
                 \/ /\ notifications[i].status = "failed"
                    /\ notifications[i].retryCount = notifications[i].maxRetries)

\* a notification failed again after its last permitted retry
C6_Witness ==
    /\ op.name = "markAsFailed"
    /\ notifications[op.id].status = "failed"
    /\ notifications[op.id].maxRetries = DefaultMaxRetries
    /\ notifications[op.id].retryCount = notifications[op.id].maxRetries

\* the fraction r equals the whole number k
RateIs(r, k) == r.num = k * r.den

\* C11: markAsSent on a notification with at least one recipient, all of them
\* pending, makes getSuccessRate() 100; getSuccessRate() of a notification
\* without recipients is 0.
C11_SentRoundTripRate ==
    /\ [](\A i \in DOMAIN notifications :
            notifications[i].recipients = <<>> => RateIs(getSuccessRate(notifications[i]), 0))
    /\ [][op'.name = "markAsSent" =>
            LET n == notifications[op'.id]
                m == notifications'[op'.id]
            IN  (/\ n.recipients # <<>>
                 /\ \A k \in DOMAIN n.recipients : n.recipients[k].status = "pending")
                => RateIs(getSuccessRate(m), 100)]_vars

\* markAsSent was called, after the stored time, on a notification whose two
\* recipients were pending
C11_Witness ==
    /\ op.name = "markAsSent"
    /\ op.at > StartTime
    /\ Len(notifications[op.id].recipients) = 2
    /\ \A k \in DOMAIN notifications[op.id].recipients :
          /\ notifications[op.id].recipients[k].status = "sent"
          /\ notifications[op.id].recipients[k].sentAt = op.at
    /\ RateIs(getSuccessRate(notifications[op.id]), 100)

\* C12: with requests handled one after another, two firings of a rule with
\* cooldown c > 0 are at least c minutes apart (a notification's createdAt is
\* the time its rule fired), and the rule fires at clock reading `now` only
\* if lastTriggered is unset or now - lastTriggered >= c.
C12_CooldownSpacing ==
    /\ [](\A j, k \in DOMAIN notifications :
            (/\ j < k
             /\ notifications[j].ruleId = notifications[k].ruleId
             /\ rules[notifications[j].ruleId].settings.cooldown > 0)
            => notifications[k].createdAt - notifications[j].createdAt
                 >= rules[notifications[j].ruleId].settings.cooldown)
    /\ [][Len(notifications') > Len(notifications) =>
            LET r == rules[notifications'[Len(notifications')].ruleId] IN
            r.settings.cooldown > 0 =>
                \/ r.statistics.lastTriggered = NullDate
                \/ now - r.statistics.lastTriggered >= r.settings.cooldown]_vars

\* a rule with a cooldown has fired twice
C12_Witness ==
    \E j, k \in DOMAIN notifications :
        /\ j < k
        /\ notifications[j].ruleId = notifications[k].ruleId
        /\ rules[notifications[j].ruleId].settings.cooldown > 0
        /\ rules[notifications[j].ruleId].statistics.totalTriggered = 2

(***************************************************************************)
(* The time-window gate on its own: one stored rule whose window is drawn  *)
(* from sample times of day, checked as the clock advances.                *)
(***************************************************************************)
MinutesPerDay == HoursPerDay * MinutesPerHour

TwoDigits(k) == <<Digits[(k \div 10) + 1], Digits[(k % 10) + 1]>>

\* minute m of the day in the schema's HH:MM format
HHMM(m) == TwoDigits(m \div MinutesPerHour) \o <<":">> \o TwoDigits(m % MinutesPerHour)

\* 00:00, 00:01, 02:00, 06:00, 12:00, 22:00, 23:30, 23:58, 23:59
SampleMinutes ==
    {0, 1, 2 * MinutesPerHour, 6 * MinutesPerHour, 12 * MinutesPerHour,
     22 * MinutesPerHour, 23 * MinutesPerHour + 30, MinutesPerDay - 2, MinutesPerDay - 1}

WindowTimes == {<<>>} \cup {HHMM(m) : m \in SampleMinutes}

TimeZones == {"UTC", "Asia/Tokyo"}

InitWindow ==
    /\ \E s \in WindowTimes, e \in WindowTimes, z \in TimeZones :
         rules = <<[Rule("rating_low", <<>>, <<EmailOwner>>, TRUE, 0, 0,
                         [start |-> s, end |-> e, timezone |-> z]) EXCEPT !.id = 1]>>
    /\ notifications = <<>>
    /\ now = StartTime
    /\ reqs = [q \in 1..NumRequests |-> IdleRequest]
    /\ ntrig = 0
    /\ op = NoOp

\* rule.isInTimeWindow() is called
CheckWindow(id) ==
    /\ op' = [NoOp EXCEPT !.name = "isInTimeWindow", !.id = id, !.at = now,
                          !.result = isInTimeWindow(rules[id], now)]
    /\ UNCHANGED <<rules, notifications, now, reqs, ntrig>>

NextWindow ==
    \/ Tick
    \/ \E id \in DOMAIN rules : CheckWindow(id)

SpecWindow == InitWindow /\ [][NextWindow]_vars

\* the claim's window test on minutes of the day
InWindow(start, end, current) ==
    \/ start <= end /\ start <= current /\ current <= end
    \/ start > end /\ (current >= start \/ current <= end)

\* the minute of the day an HH:MM sample stands for
MinuteOf(hhmm) == CHOOSE m \in SampleMinutes : HHMM(m) = hhmm

\* C13: with start and end configured the time-window gate passes exactly
\* when (start <= end and start <= current <= end) or (start > end and
\* (current >= start or current <= end)), for every current minute of the
\* day; with start or end not configured it always passes; for 22:00 to
\* 06:00 it passes at 23:30 and 02:00 and not at 12:00.  The stored rule
\* never changes here, so the whole day is gone through once per rule,
\* before the first step, and each later call is compared at its own time.
C13_TimeWindowGate ==
    \A id \in DOMAIN rules :
        LET tw == rules[id].settings.timeWindow
            configured == tw.start # <<>> /\ tw.end # <<>>
            start == IF configured THEN MinuteOf(tw.start) ELSE 0
            end == IF configured THEN MinuteOf(tw.end) ELSE 0
            local(t) == MinuteOfDay(t, tw.timezone)
        IN  /\ op = NoOp =>
                  \A t \in 0..(MinutesPerDay - 1) :
                      isInTimeWindow(rules[id], t)
                        <=> (~configured \/ InWindow(start, end, local(t)))
            /\ (tw.start = HHMM(22 * MinutesPerHour) /\ tw.end = HHMM(6 * MinutesPerHour)
                 /\ tw.timezone = "UTC") =>
                  /\ isInTimeWindow(rules[id], 23 * MinutesPerHour + 30)
                  /\ isInTimeWindow(rules[id], 2 * MinutesPerHour)
                  /\ ~isInTimeWindow(rules[id], 12 * MinutesPerHour)
            /\ op.name = "isInTimeWindow" =>
                  op.result = (~configured \/ InWindow(start, end, local(op.at)))

\* the gate was found open after midnight inside a window that spans it
C13_Witness ==
    /\ op.name = "isInTimeWindow"
    /\ op.result
    /\ LET tw == rules[op.id].settings.timeWindow IN
       /\ tw.start # <<>> /\ tw.end # <<>>
       /\ MinuteOf(tw.start) > MinuteOf(tw.end)
       /\ MinuteOfDay(op.at, tw.timezone) <= MinuteOf(tw.end)

\* a value the claim counts as numeric: a number, or text that reads as one
IsNumeric(v) ==
    \/ v.t = "number"
    \/ v.t = "string" /\ TrimRight(TrimLeft(v.s)) # <<>> /\ StringToNumber(v.s).t = "number"

\* C14: a greater_than or less_than condition is false whenever the resolved
\* field value or the condition value is not numeric, also when the field is
\* absent from the payload; so a rule that fired has no such condition on a
\* non-numeric or absent field.
C14_NumericComparisonNeedsNumbers ==
    \A id \in DOMAIN rules :
        (Done(1) /\ Fired(1, id)) =>
            \A k \in DOMAIN rules[id].conditions :
                LET c == rules[id].conditions[k] IN
                c.operator \in {"greater_than", "less_than"} =>
                    /\ IsNumeric(getNestedValue(reqs[1].triggerData, c.field))
                    /\ IsNumeric(c.value)

(***************************************************************************)
(* Trigger requests handled concurrently: each request's steps between its *)
(* awaits interleave with the steps of the others.                         *)
(***************************************************************************)
NextConc ==
    \/ Tick
    \/ \E q \in 1..NumRequests :
          Receive(q) \/ Fire(q) \/ Skip(q) \/ RecordTrigger(q) \/ Respond(q)

SpecConc == Init /\ [][NextConc]_vars

\* the number of times rule id has fired: each firing stores one notification
Firings(id) == Cardinality({j \in DOMAIN notifications : notifications[j].ruleId = id})

\* C15: rule statistics stay exact under concurrent firings: once every
\* request has completed, totalTriggered and totalSent of each rule have
\* grown by the number of its firings (they start at 0).
C15_NoLostIncrement ==
    (\A q \in 1..NumRequests : reqs[q].pc \in {"idle", "done"}) =>
        \A id \in DOMAIN rules :
            /\ rules[id].statistics.totalTriggered = Firings(id)
            /\ rules[id].statistics.totalSent = Firings(id)

\* rule a comes before rule b in descending priority, then descending
\* creation time; rules are created in the order of their ids
RanksBefore(a, b) ==
    \/ a.settings.priority > b.settings.priority
    \/ a.settings.priority = b.settings.priority /\ a.id > b.id

\* C16: trigger processes the candidate rules, and returns their
\* notifications, by descending rule priority and then descending creation
\* time: of two rules that fired in one request, the notification of the
\* rule that ranks first is earlier in the response and was stored first.
C16_DescendingPriorityOrder ==
    Done(1) =>
        \A a, b \in DOMAIN reqs[1].out :
            LET na == notifications[reqs[1].out[a]]
                nb == notifications[reqs[1].out[b]]
            IN  (na.ruleId # nb.ruleId /\ RanksBefore(rules[na.ruleId], rules[nb.ruleId])) =>
                    a < b /\ reqs[1].out[a] < reqs[1].out[b]

\* C17: every Notification created by trigger has status pending,
\* retryCount 0, every recipient pending with retryCount 0, the priority of
\* its action (normal if unset) and scheduledFor at the trigger time plus
\* its action's delay in minutes; the actions of a notification are those
\* of its rule, whose recipients it holds.
C17_CreatedNotificationFields ==
    \A j \in DOMAIN notifications :
        LET n == notifications[j]
            actions == rules[n.ruleId].actions
        IN  /\ n.status = "pending"
            /\ n.retryCount = 0
            /\ \A k \in DOMAIN n.recipients :
                    n.recipients[k].status = "pending" /\ n.recipients[k].retryCount = 0
            /\ \A k \in DOMAIN actions :
                    /\ n.priority = (IF actions[k].settings.priority # ""
                                     THEN actions[k].settings.priority ELSE "normal")
                    /\ n.scheduledFor = n.createdAt + actions[k].settings.delay

\* C18: recipient status is monotone: under any markAsSent, markAsFailed or
\* incrementRetry a recipient's status changes only from pending to sent or
\* from pending to failed; a recipient that is sent, failed, delivered or
\* bounced keeps its status and none becomes pending again.
C18_RecipientStatusMonotone ==
    [][\A i \in DOMAIN notifications :
          /\ DOMAIN notifications'[i].recipients = DOMAIN notifications[i].recipients
          /\ \A k \in DOMAIN notifications[i].recipients :
                LET old == notifications[i].recipients[k].status
                    new == notifications'[i].recipients[k].status
                IN  old # new => old = "pending" /\ new \in {"sent", "failed"}]_vars

\* a retry was counted on a document with a recipient that had left pending
\* for failed under markAsFailed("timeout") and one that was delivered
C18_Witness ==
    /\ op.name = "incrementRetry"
    /\ \E k \in DOMAIN notifications[1].recipients :
          LET r == notifications[1].recipients[k] IN
          r.status = "failed" /\ r.error = "timeout" /\ r.retryCount > 0
    /\ \E k \in DOMAIN notifications[1].recipients :
          notifications[1].recipients[k].status = "delivered"

(***************************************************************************)
(* The Notification methods called on a document as the trigger handler    *)
(* created it.                                                             *)
(***************************************************************************)
InitFresh ==
    /\ rules = <<>>
    /\ notifications \in
          {<<NewNotification([Catalogue[c] EXCEPT !.id = 1], Events[e].triggerData, StartTime)>> :
              c \in DOMAIN Catalogue, e \in DOMAIN Events}
    /\ now = StartTime
    /\ reqs = [q \in 1..NumRequests |-> IdleRequest]
    /\ ntrig = 0
    /\ op = NoOp

SpecFresh == InitFresh /\ [][NextDoc]_vars

\* C19: in every state reached from a freshly created notification by
\* markAsSent, markAsFailed and incrementRetry, retryCount <= maxRetries.
C19_RetryCountWithinMax ==
    \A i \in DOMAIN notifications :
        notifications[i].retryCount <= notifications[i].maxRetries

(***************************************************************************)
(* updateStatistics(true) and updateStatistics(false) called one after     *)
(* another on a stored rule whose statistics start at zero.                *)
(***************************************************************************)
MaxUpdates == 3

InitStats ==
    /\ rules \in {<<[Catalogue[c] EXCEPT !.id = 1]>> : c \in DOMAIN Catalogue}
    /\ notifications = <<>>
    /\ now = StartTime
    /\ reqs = [q \in 1..NumRequests |-> IdleRequest]
    /\ ntrig = 0
    /\ op = NoOp

\* await rule.updateStatistics(success) on the rule as loaded from the store
UpdateStatistics(id, success) ==
    /\ rules[id].statistics.totalTriggered < MaxUpdates
    /\ rules' = [rules EXCEPT ![id] =
                    saveStatistics(@, updateStatistics(@, success, now), success)]
    /\ op' = [NoOp EXCEPT !.name = "updateStatistics", !.id = id, !.at = now,
                          !.result = success]
    /\ UNCHANGED <<notifications, now, reqs, ntrig>>

NextStats ==
    \/ Tick
    \/ \E id \in DOMAIN rules, success \in BOOLEAN : UpdateStatistics(id, success)

SpecStats == InitStats /\ [][NextStats]_vars

StatisticsConsistent(st) ==
    /\ st.totalTriggered = st.totalSent + st.totalFailed
    /\ st.totalTriggered > 0 => st.lastTriggered # NullDate

\* C20: from zeroed statistics, under updateStatistics(true/false) calls made
\* one after another, totalTriggered = totalSent + totalFailed, none of the
\* three counters decreases, and lastTriggered is set when totalTriggered > 0.
C20_StatisticsConsistent ==
    [][\A id \in DOMAIN rules :
          LET old == rules[id].statistics
              new == rules'[id].statistics
          IN  /\ StatisticsConsistent(old)
              /\ StatisticsConsistent(new)
              /\ new.totalTriggered >= old.totalTriggered
              /\ new.totalSent >= old.totalSent
              /\ new.totalFailed >= old.totalFailed
              /\ op'.name = "updateStatistics" =>
                    /\ new.totalTriggered = old.totalTriggered + 1
                    /\ new.lastTriggered = op'.at]_vars

\* a rule was updated with both outcomes, the last one a failure
C20_Witness ==
    /\ op.name = "updateStatistics"
    /\ op.result = FALSE
    /\ rules[op.id].statistics.totalSent > 0
    /\ rules[op.id].statistics.totalFailed > 1
    /\ rules[op.id].statistics.lastTriggered > StartTime

\* C21: in every state reached from a freshly created notification by
\* markAsSent, markAsFailed and incrementRetry, a notification whose status
\* is sent or failed has no recipient in status pending, status sent implies
\* sentAt is set, and status failed implies failedAt is set.
C21_SettledStatusConsistent ==
    \A i \in DOMAIN notifications :
        LET n == notifications[i] IN
        /\ n.status \in {"sent", "failed"} =>
              \A k \in DOMAIN n.recipients : n.recipients[k].status # "pending"
        /\ n.status = "sent" => n.sentAt # NullDate
        /\ n.status = "failed" => n.failedAt # NullDate

\* a notification with three recipients was sent, later failed, and a retry
\* was counted on it
C21_Witness ==
    /\ op.name = "markAsFailed"
    /\ notifications[1].status = "failed"
    /\ notifications[1].failedAt > StartTime
    /\ notifications[1].sentAt = StartTime
    /\ notifications[1].retryCount > 0
    /\ Len(notifications[1].recipients) = 3
    /\ \A k \in DOMAIN notifications[1].recipients :
          notifications[1].recipients[k].status = "sent"

====
